---- MODULE Spec2Model ----
(***************************************************************************)
(* Model of benches/check_regression.py (EdgeVec benchmark regression      *)
(* gate): main() loads the baselines, check_regression() walks the         *)
(* declared benchmarks in order, and for each one reads the criterion      *)
(* estimates, extracts median and P99, evaluates the checks and records a  *)
(* verdict; main() turns the aggregate flag into the exit code.            *)
(*                                                                         *)
(* Numbers.  The script computes with Python floats.  The model computes   *)
(* with exact rationals <<numerator, denominator>> (denominator > 0), so a *)
(* ratio "exactly equal to a threshold" is representable; float rounding   *)
(* is not modelled.  Nanosecond inputs and baseline values are integers.   *)
(*                                                                         *)
(* Optional values.  A Python None / a missing dict key is the empty       *)
(* sequence None, a present value v is the one-element sequence Some(v).   *)
(***************************************************************************)
EXTENDS Integers, Sequences, FiniteSets, TLC

VARIABLES
    baseline_file, \* the baseline file as main found it: "unread" before
                 \* load_baselines, then "missing", "malformed" or "ok"
    pc,          \* position of the process: "start", "loop", "exit", "crashed"
    nbench,      \* number of entries of baseline["benchmarks"]
    threshold,   \* P50 regression threshold handed to check_regression
    strict_p99,  \* not args.lenient_p99
    config,      \* loop variable: the baseline entry of the current benchmark
    disk,        \* what the results directory holds for the current benchmark
    estimates,   \* content of the current benchmark's estimates.json
    results,     \* verdicts recorded so far, in declaration order
    all_passed,  \* the running aggregate flag
    exit_code    \* Some(code) once the process has exited, None before

vars == <<baseline_file, pc, nbench, threshold, strict_p99, config, disk, estimates,
          results, all_passed, exit_code>>

(***************************************************************************)
(* Bounds of the model.                                                    *)
(***************************************************************************)
MaxBenchmarks == 2

(***************************************************************************)
(* Optional values and rationals.                                          *)
(***************************************************************************)
None == <<>>
Some(v) == <<v>>
Get(opt, default) == IF opt = None THEN default ELSE opt[1]

Rat(n, d) == <<n, d>>
RatGT(a, b) == a[1] * b[2] > b[1] * a[2]
RatDiv(a, b) == Rat(a[1] * b[2], a[2] * b[1])
RatPos(a) == a[1] > 0

(***************************************************************************)
(* Constants of the script.                                                *)
(***************************************************************************)
P50_REGRESSION_THRESHOLD == Rat(11, 10)
\* the median threshold used for the tail
P99_REGRESSION_THRESHOLD_p50 == Rat(11, 10)
P99_REGRESSION_THRESHOLD == Rat(3, 2)
P99_MEDIAN_RATIO_MAX == Rat(5, 1)
P99_STDDEV_MULTIPLIER == 5
SUPPORTED_UNITS == {"ns", "us", "ms", "s"}

(***************************************************************************)
(* JSON values of estimates.json.  A key of the estimates dict is          *)
(*   kind "absent" : the key is missing                                    *)
(*   kind "null"   : the key maps to null                                  *)
(*   kind "dict"   : the key maps to an object; pe is its point_estimate   *)
(*                   (None when the object has none), upper the            *)
(*                   confidence_interval.upper_bound (None when the object *)
(*                   has no confidence interval or the interval no bound). *)
(***************************************************************************)
JAbsent == [kind |-> "absent", pe |-> None, upper |-> None]
JNull == [kind |-> "null", pe |-> None, upper |-> None]
JDict(pe, upper) == [kind |-> "dict", pe |-> pe, upper |-> upper]

NoEstimates == [median |-> JAbsent, slope |-> JAbsent, mean |-> JAbsent,
                std_dev |-> JAbsent]

\* extract_median_ns returning 0.0 instead of None when nothing is found
extract_median_ns_zero(est) ==
    IF est.median.kind = "dict" /\ est.median.pe # None
    THEN Some(Rat(est.median.pe[1], 1))
    ELSE IF est.slope.kind = "dict" /\ est.slope.pe # None
         THEN Some(Rat(est.slope.pe[1], 1))
         ELSE Some(Rat(0, 1))

(***************************************************************************)
(* extract_median_ns: the median's point estimate, else the (non-null)     *)
(* slope's point estimate, else None.                                      *)
(***************************************************************************)
extract_median_ns(est) ==
    IF est.median.kind # "absent" /\ est.median.kind = "dict"
          /\ est.median.pe # None
    THEN Some(Rat(est.median.pe[1], 1))
    ELSE IF est.slope.kind # "absent" /\ est.slope.kind # "null"
               /\ est.slope.kind = "dict" /\ est.slope.pe # None
         THEN Some(Rat(est.slope.pe[1], 1))
         ELSE None

\* extract_p99_ns with the fallback tested by "is not None": an upper bound
\* of 0 is returned as a tail of 0.0
extract_p99_ns_zero_upper(est) ==
    LET primary_keys == est.mean.kind # "absent" /\ est.std_dev.kind # "absent"
        both_dicts == est.mean.kind = "dict" /\ est.std_dev.kind = "dict"
        mean_ns == Get(est.mean.pe, 0)
        std_dev_ns == Get(est.std_dev.pe, 0)
        upper == IF est.mean.kind = "dict" THEN est.mean.upper ELSE None
    IN  IF primary_keys /\ both_dicts /\ mean_ns > 0 /\ std_dev_ns >= 0
        THEN [value |-> Some(Rat(mean_ns + P99_STDDEV_MULTIPLIER * std_dev_ns, 1)),
              estimated |-> TRUE]
        ELSE IF est.mean.kind # "absent" /\ est.mean.kind = "dict" /\ upper # None
             THEN [value |-> Some(Rat(upper[1], 1)), estimated |-> TRUE]
             ELSE [value |-> None, estimated |-> FALSE]

(***************************************************************************)
(* extract_p99_ns: returns [value, estimated].                             *)
(* Primary: mean and std_dev keys present and both objects; a missing      *)
(* point_estimate reads as 0 (dict.get default).  Fallback: the mean's     *)
(* upper confidence bound when truthy.                                     *)
(***************************************************************************)
extract_p99_ns(est) ==
    LET primary_keys == est.mean.kind # "absent" /\ est.std_dev.kind # "absent"
        both_dicts == est.mean.kind = "dict" /\ est.std_dev.kind = "dict"
        mean_ns == Get(est.mean.pe, 0)
        std_dev_ns == Get(est.std_dev.pe, 0)
        upper == IF est.mean.kind = "dict" THEN est.mean.upper ELSE None
    IN  IF primary_keys /\ both_dicts /\ mean_ns > 0 /\ std_dev_ns >= 0
        THEN [value |-> Some(Rat(mean_ns + P99_STDDEV_MULTIPLIER * std_dev_ns, 1)),
              estimated |-> TRUE]
        ELSE IF est.mean.kind # "absent" /\ est.mean.kind = "dict"
                  /\ upper # None /\ upper[1] # 0
             THEN [value |-> Some(Rat(upper[1], 1)), estimated |-> TRUE]
             ELSE [value |-> None, estimated |-> FALSE]

(***************************************************************************)
(* convert_ns_to_unit: raises ValueError for a unit outside                *)
(* SUPPORTED_UNITS, else divides by the unit's factor.  Returns            *)
(* [raised, value].                                                        *)
(***************************************************************************)
UnitFactor(unit) ==
    CASE unit = "ns" -> 1
      [] unit = "us" -> 1000
      [] unit = "ms" -> 1000000
      [] unit = "s"  -> 1000000000

convert_ns_to_unit(value_ns, unit) ==
    IF unit \notin SUPPORTED_UNITS
    THEN [raised |-> TRUE, value |-> value_ns]
    ELSE IF unit = "ns"
    THEN [raised |-> FALSE, value |-> value_ns]
    ELSE [raised |-> FALSE, value |-> Rat(value_ns[1], value_ns[2] * UnitFactor(unit))]

(***************************************************************************)
(* The results directory for one benchmark: whether                        *)
(* <results>/validation/<name> exists, and the state of new/estimates.json *)
(* and base/estimates.json in it ("absent", "malformed": not valid JSON,   *)
(* "ok": parses to the dict held in the variable estimates).               *)
(***************************************************************************)
Disk(dir, new, base) == [dir |-> dir, new |-> new, base |-> base]

(***************************************************************************)
(* find_criterion_estimate: new/estimates.json, else base/estimates.json;  *)
(* None when neither exists.  json.load runs unguarded: a file that is not *)
(* valid JSON raises out of the function.                                  *)
(***************************************************************************)
find_criterion_estimate(d, est) ==
    LET estimates_path == IF d.new = "absent" THEN d.base ELSE d.new
    IN  IF estimates_path = "absent"
        THEN [raised |-> FALSE, value |-> None]
        ELSE IF estimates_path = "malformed"
             THEN [raised |-> TRUE, value |-> None]
             ELSE [raised |-> FALSE, value |-> Some(est)]

(***************************************************************************)
(* A baseline entry: unit, p50, p99 and hard_limit are the keys the script *)
(* reads; other_tail is a tail expectation stored under any other key of   *)
(* the entry (the script reads "p99" only).                                *)
(***************************************************************************)
Config(unit, p50, p99, other_tail, hard_limit) ==
    [unit |-> unit, p50 |-> p50, p99 |-> p99, other_tail |-> other_tail,
     hard_limit |-> hard_limit]

\* config.get("p99", 0)
baseline_p99_of(cfg) == Get(cfg.p99, 0)
\* config.get("unit", "ns")
unit_of(cfg) == Get(cfg.unit, "ns")
\* config.get("p50", 0)
baseline_p50_of(cfg) == Get(cfg.p50, 0)
\* config.get("hard_limit", float("inf"))
hard_limit_of(cfg) ==
    IF cfg.hard_limit = None THEN [inf |-> TRUE, v |-> 0]
    ELSE [inf |-> FALSE, v |-> cfg.hard_limit[1]]

\* current_median > hard_limit
ExceedsLimit(current, limit) == ~limit.inf /\ RatGT(current, Rat(limit.v, 1))

(***************************************************************************)
(* Checks.  Each operator returns the check records it appends to          *)
(* result["checks"] and whether its branch executes all_passed = False.    *)
(***************************************************************************)
Check(name, passed, reason) == [name |-> name, passed |-> passed, reason |-> reason]
NoCheck == [checks |-> <<>>, sets_false |-> FALSE]

\* Check 1: P50 (median) regression, with the hard limit tested first.
check_p50(current_median, baseline_p50, hard_limit, thr) ==
    IF baseline_p50 > 0
    THEN LET p50_ratio == RatDiv(current_median, Rat(baseline_p50, 1))
         IN  IF ExceedsLimit(current_median, hard_limit)
             THEN [checks |-> <<Check("P50 Hard Limit", FALSE, "Exceeds hard limit")>>,
                   sets_false |-> TRUE]
             ELSE IF RatGT(p50_ratio, thr)
                  THEN [checks |-> <<Check("P50 Regression", FALSE, "P50 over threshold")>>,
                        sets_false |-> TRUE]
                  ELSE [checks |-> <<Check("P50 Regression", TRUE, "P50 of baseline")>>,
                        sets_false |-> FALSE]
    ELSE NoCheck

\* check_p99 comparing with >= instead of >
check_p99_ge(current_p99, baseline_p99) ==
    IF current_p99 # None /\ baseline_p99 > 0
    THEN LET p99_ratio == RatDiv(current_p99[1], Rat(baseline_p99, 1))
         IN  IF ~RatGT(P99_REGRESSION_THRESHOLD, p99_ratio)
             THEN [checks |-> <<Check("P99 Regression", FALSE, "P99 over threshold")>>,
                   sets_false |-> TRUE]
             ELSE [checks |-> <<Check("P99 Regression", TRUE, "P99 of baseline")>>,
                   sets_false |-> FALSE]
    ELSE [checks |-> <<>>, sets_false |-> FALSE]

\* check_p99 with the failing branch forgetting all_passed = False
check_p99_noflag(current_p99, baseline_p99) ==
    IF current_p99 # None /\ baseline_p99 > 0
    THEN LET p99_ratio == RatDiv(current_p99[1], Rat(baseline_p99, 1))
         IN  IF RatGT(p99_ratio, P99_REGRESSION_THRESHOLD)
             THEN [checks |-> <<Check("P99 Regression", FALSE, "P99 over threshold")>>,
                   sets_false |-> FALSE]
             ELSE [checks |-> <<Check("P99 Regression", TRUE, "P99 of baseline")>>,
                   sets_false |-> FALSE]
    ELSE [checks |-> <<>>, sets_false |-> FALSE]

\* Check 2: P99 regression.
check_p99(current_p99, baseline_p99) ==
    IF current_p99 # None /\ baseline_p99 > 0
    THEN LET p99_ratio == RatDiv(current_p99[1], Rat(baseline_p99, 1))
         IN  IF RatGT(p99_ratio, P99_REGRESSION_THRESHOLD)
             THEN [checks |-> <<Check("P99 Regression", FALSE, "P99 over threshold")>>,
                   sets_false |-> TRUE]
             ELSE [checks |-> <<Check("P99 Regression", TRUE, "P99 of baseline")>>,
                   sets_false |-> FALSE]
    ELSE NoCheck

\* Check 3: P99/P50 ratio sanity check.
\* the ratio check without the test on the current median
check_p99_p50_unguarded(current_p99, current_median) ==
    IF current_p99 # None
    THEN LET p99_p50_ratio == RatDiv(current_p99[1], current_median)
         IN  IF RatGT(p99_p50_ratio, P99_MEDIAN_RATIO_MAX)
             THEN [checks |-> <<Check("P99/P50 Ratio", FALSE, "P99/P50 ratio exceeds limit")>>,
                   sets_false |-> TRUE]
             ELSE [checks |-> <<Check("P99/P50 Ratio", TRUE, "P99/P50 ratio OK")>>,
                   sets_false |-> FALSE]
    ELSE NoCheck

check_p99_p50(current_p99, current_median) ==
    IF current_p99 # None /\ RatPos(current_median)
    THEN LET p99_p50_ratio == RatDiv(current_p99[1], current_median)
         IN  IF RatGT(p99_p50_ratio, P99_MEDIAN_RATIO_MAX)
             THEN [checks |-> <<Check("P99/P50 Ratio", FALSE, "P99/P50 ratio exceeds limit")>>,
                   sets_false |-> TRUE]
             ELSE [checks |-> <<Check("P99/P50 Ratio", TRUE, "P99/P50 ratio OK")>>,
                   sets_false |-> FALSE]
    ELSE NoCheck

\* "Regression" in c["name"], over the names the script gives its checks
HasRegressionInName(name) == name \in {"P50 Regression", "P99 Regression"}

\* [c for c in checks if not c["passed"]]
failed_checks(checks) == SelectSeq(checks, LAMBDA c : ~c.passed)

\* "; ".join(c["reason"] for c in failed): the reasons in order
JoinReasons(failed) == [k \in 1..Len(failed) |-> failed[k].reason]

\* the status decided by the first failed check alone
overall_status_first(checks) ==
    LET failed == SelectSeq(checks, LAMBDA c : ~c.passed)
    IN  IF failed # <<>>
        THEN [status |-> IF failed[1].name \in {"P50 Regression", "P99 Regression"}
                         THEN "REGRESSION" ELSE "FAIL",
              reason |-> [k \in 1..Len(failed) |-> failed[k].reason]]
        ELSE [status |-> "PASS", reason |-> <<"All checks passed">>]

\* Determine overall status
overall_status(checks) ==
    LET failed == failed_checks(checks)
    IN  IF failed # <<>>
        THEN [status |-> IF \E k \in 1..Len(failed) : HasRegressionInName(failed[k].name)
                         THEN "REGRESSION" ELSE "FAIL",
              reason |-> JoinReasons(failed)]
        ELSE [status |-> "PASS", reason |-> <<"All checks passed">>]

(***************************************************************************)
(* Verdicts.  The early verdicts hold status and reason only (has_metrics  *)
(* FALSE, the other fields blank); an evaluated verdict holds the metrics  *)
(* and the checks.                                                         *)
(***************************************************************************)
EarlyVerdict(status, reason) ==
    [status |-> status, reason |-> <<reason>>, has_metrics |-> FALSE,
     current_p50 |-> None, current_p99 |-> None, baseline_p50 |-> 0,
     baseline_p99 |-> 0, unit |-> "", p99_estimated |-> FALSE, checks |-> <<>>]

Outcome(raised, verdict, sets_false) ==
    [raised |-> raised, verdict |-> verdict, sets_false |-> sets_false]

\* [C3 FIX] FAIL if P99 extraction fails and baseline expects P99
strict_p99_rule(current_p99_ns, baseline_p99, strict) ==
    current_p99_ns = None /\ baseline_p99 > 0 /\ strict

\* the strict rule recording SKIP, as before the [C3] fix
StrictP99Verdict_skip ==
    Outcome(FALSE,
            EarlyVerdict("SKIP", "Could not extract P99 from estimates (baseline requires P99)"),
            FALSE)

StrictP99Verdict ==
    Outcome(FALSE,
            EarlyVerdict("FAIL", "Could not extract P99 from estimates (baseline requires P99)"),
            TRUE)

\* the unit validation accepting every unit
unit_supported_any(unit) == TRUE

\* lines 261-264: unit in SUPPORTED_UNITS, else ValueError, caught at 265
unit_supported(unit) == unit \in SUPPORTED_UNITS

\* lines 265-271: str(e) is "Unsupported unit in baseline: <unit>"
UnsupportedUnitVerdict(unit) ==
    Outcome(FALSE,
            [EarlyVerdict("FAIL", "Unsupported unit in baseline: ")
               EXCEPT !.reason = <<"Unsupported unit in baseline: ", unit>>],
            TRUE)

\* lines 273-364: conversion, the three checks, the overall status
evaluate(cfg, current_median_ns, p99, thr) ==
    LET unit == unit_of(cfg)
        baseline_p50 == baseline_p50_of(cfg)
        baseline_p99 == baseline_p99_of(cfg)
        hard_limit == hard_limit_of(cfg)
        median_conv == convert_ns_to_unit(current_median_ns, unit)
        current_median == median_conv.value
        \* "if current_p99_ns": None and 0.0 are both falsy
        p99_truthy == p99.value # None /\ p99.value[1][1] # 0
        p99_conv == IF p99_truthy THEN convert_ns_to_unit(p99.value[1], unit)
                    ELSE [raised |-> FALSE, value |-> Rat(0, 1)]
        current_p99 == IF p99_truthy THEN Some(p99_conv.value) ELSE None
        c1 == check_p50(current_median, baseline_p50, hard_limit, thr)
        c2 == check_p99(current_p99, baseline_p99)
        c3 == check_p99_p50(current_p99, current_median)
        checks == c1.checks \o c2.checks \o c3.checks
        overall == overall_status(checks)
    IN  IF median_conv.raised \/ p99_conv.raised
        THEN Outcome(TRUE, EarlyVerdict("", ""), FALSE)
        ELSE
        Outcome(FALSE,
                [status |-> overall.status, reason |-> overall.reason,
                 has_metrics |-> TRUE, current_p50 |-> Some(current_median),
                 current_p99 |-> current_p99, baseline_p50 |-> baseline_p50,
                 baseline_p99 |-> baseline_p99, unit |-> unit,
                 p99_estimated |-> p99.estimated, checks |-> checks],
                c1.sets_false \/ c2.sets_false \/ c3.sets_false)

(***************************************************************************)
(* One iteration of the for-loop of check_regression (lines 220-364).      *)
(***************************************************************************)
loop_body(cfg, d, est, thr, strict) ==
    IF ~d.dir
    THEN Outcome(FALSE, EarlyVerdict("SKIP", "No results found"), FALSE)
    ELSE
    LET found == find_criterion_estimate(d, est)
    IN  IF found.raised
        THEN Outcome(TRUE, EarlyVerdict("", ""), FALSE)
        ELSE IF found.value = None
        THEN Outcome(FALSE, EarlyVerdict("SKIP", "Could not parse estimates.json"), FALSE)
        ELSE
        LET current_median_ns == extract_median_ns(found.value[1])
            p99 == extract_p99_ns(found.value[1])
        IN  IF current_median_ns = None
            THEN Outcome(FALSE,
                         EarlyVerdict("SKIP", "Could not extract median from estimates"),
                         FALSE)
            ELSE IF strict_p99_rule(p99.value, baseline_p99_of(cfg), strict)
            THEN StrictP99Verdict
            ELSE IF ~unit_supported(unit_of(cfg))
            THEN UnsupportedUnitVerdict(unit_of(cfg))
            ELSE evaluate(cfg, current_median_ns[1], p99, thr)

(***************************************************************************)
(* Inputs.  EvalInputs is the detailed input space of one benchmark (every *)
(* shape of the baseline entry and of estimates.json, with values on and   *)
(* around each threshold); LoopInputs is a smaller space, with every shape *)
(* of the results directory, for runs over several benchmarks.             *)
(* Baseline values are written in the entry's own unit: an entry in "us"   *)
(* holds 10 where an entry in ns holds 10000.                              *)
(***************************************************************************)
Input(cfg, d, est) == [config |-> cfg, disk |-> d, estimates |-> est]

ConfigsFor(unit, k) ==
    { Config(unit, p50, p99, other, hl) :
        p50 \in {None, Some(0), Some(10 * k)},
        p99 \in {None, Some(10 * k)},
        other \in {None, Some(20 * k)},
        hl \in {None, Some(11 * k)} }

EvalConfigs ==
    ConfigsFor(None, 1000) \cup ConfigsFor(Some("us"), 1) \cup ConfigsFor(Some("bogus"), 1)

EvalEstimates ==
    { [median |-> m, slope |-> s, mean |-> mn, std_dev |-> sd] :
        m \in {JAbsent, JDict(None, None), JDict(Some(0), None), JDict(Some(3000), None),
               JDict(Some(11000), None), JDict(Some(12000), None)},
        s \in {JAbsent, JNull, JDict(Some(11000), None)},
        mn \in {JAbsent} \cup
               { JDict(pe, up) : pe \in {None, Some(0), Some(10000)},
                                 up \in {None, Some(0), Some(16000)} },
        sd \in {JAbsent, JDict(None, None), JDict(Some(0 - 1000), None),
                JDict(Some(0), None), JDict(Some(1000), None), JDict(Some(2000), None)} }

\* A baseline entry in us (p50 100, p99 400, hard_limit 1000) with summaries
\* of mean 100000 ns, median 99000 ns and a growing std_dev.
ScenarioConfig == Config(Some("us"), Some(100), Some(400), None, Some(1000))
ScenarioEstimates(std_dev_ns) ==
    [median |-> JDict(Some(99000), None), slope |-> JAbsent,
     mean |-> JDict(Some(100000), None), std_dev |-> JDict(Some(std_dev_ns), None)]
ScenarioInputs ==
    { Input(ScenarioConfig, Disk(TRUE, "ok", "absent"), ScenarioEstimates(sd)) :
        sd \in {20000, 90000, 120000} }

EvalInputs ==
    { Input(c, Disk(TRUE, "ok", "absent"), e) : c \in EvalConfigs, e \in EvalEstimates }
    \cup ScenarioInputs

LoopConfigs ==
    { Config(None, Some(10), Some(10), None, Some(11)),
      Config(None, Some(10), None, None, None),
      Config(None, None, Some(10), None, None),
      Config(Some("bogus"), Some(10), Some(10), None, None) }

LoopEstimates ==
    { [median |-> m, slope |-> JAbsent, mean |-> t[1], std_dev |-> t[2]] :
        m \in {JAbsent, JDict(Some(3), None), JDict(Some(10), None), JDict(Some(12), None)},
        t \in { <<JAbsent, JAbsent>>,
                <<JDict(Some(10), None), JDict(Some(1), None)>>,
                <<JDict(Some(10), None), JDict(Some(2), None)>> } }

LoopInputs ==
    { Input(c, Disk(TRUE, "ok", "absent"), e) : c \in LoopConfigs, e \in LoopEstimates }
    \cup
    { Input(c, d, NoEstimates) : c \in LoopConfigs,
                       d \in {Disk(FALSE, "absent", "absent"), Disk(TRUE, "absent", "absent"),
                              Disk(TRUE, "malformed", "absent"), Disk(TRUE, "absent", "malformed"),
                              Disk(TRUE, "absent", "ok"), Disk(TRUE, "ok", "malformed")} }

(***************************************************************************)
(* State machine.                                                          *)
(***************************************************************************)
NoConfig == Config(None, None, None, None, None)
NoDisk == Disk(FALSE, "absent", "absent")

Init ==
    /\ baseline_file = "unread"
    /\ pc = "start"
    /\ nbench = 0
    /\ threshold = P50_REGRESSION_THRESHOLD
    /\ strict_p99 = TRUE
    /\ config = NoConfig
    /\ disk = NoDisk
    /\ estimates = NoEstimates
    /\ results = <<>>
    /\ all_passed = TRUE
    /\ exit_code = None

(***************************************************************************)
(* load_baselines: exits with code 2 when the file does not exist;         *)
(* json.load runs unguarded, so a file that is not valid JSON raises.      *)
(***************************************************************************)
load_baselines(file) ==
    IF file = "missing" THEN [exit |-> Some(2), raised |-> FALSE]
    ELSE IF file = "malformed" THEN [exit |-> None, raised |-> TRUE]
    ELSE [exit |-> None, raised |-> FALSE]

\* baseline.get("thresholds", {}).get("regression_multiplier", args.threshold)
resolve_threshold(override, args_threshold) == Get(override, args_threshold)

(***************************************************************************)
(* main, lines 498-510: parse the arguments, load the baselines, resolve   *)
(* the threshold, enter check_regression (results = {}, all_passed = True).*)
(* Overrides: the values of thresholds.regression_multiplier the baseline  *)
(* file may hold; Counts: how many benchmarks it may declare.              *)
(***************************************************************************)
main_start(Overrides, Counts) ==
    /\ pc = "start"
    /\ \E file \in {"missing", "malformed", "ok"}, lenient_p99 \in BOOLEAN,
          override \in Overrides, n \in Counts :
         LET loaded == load_baselines(file)
         IN  /\ baseline_file' = file
             /\ IF loaded.exit # None
                THEN /\ pc' = "exit"
                     /\ exit_code' = loaded.exit
                     /\ UNCHANGED <<nbench, threshold, strict_p99>>
                ELSE IF loaded.raised
                THEN /\ pc' = "crashed"
                     /\ exit_code' = Some(1)
                     /\ UNCHANGED <<nbench, threshold, strict_p99>>
                ELSE /\ pc' = "loop"
                     /\ exit_code' = None
                     /\ nbench' = n
                     /\ threshold' = resolve_threshold(override, P50_REGRESSION_THRESHOLD)
                     /\ strict_p99' = ~lenient_p99
    /\ results' = <<>>
    /\ all_passed' = TRUE
    /\ UNCHANGED <<config, disk, estimates>>

(***************************************************************************)
(* check_regression, one iteration of the loop over the declared           *)
(* benchmarks: the whole body, from the lookup of the results directory to *)
(* results[name] = result.  An exception raised in the body leaves the     *)
(* loop and the process (uncaught: traceback, exit status 1).              *)
(***************************************************************************)
\* the loop with one checks list shared by all the benchmarks
check_regression_iter_shared(Inputs) ==
    /\ pc = "loop"
    /\ Len(results) < nbench
    /\ \E in \in Inputs :
         LET out == loop_body(in.config, in.disk, in.estimates, threshold, strict_p99)
             earlier == IF results = <<>> THEN <<>> ELSE results[Len(results)].checks
         IN  /\ config' = in.config
             /\ disk' = in.disk
             /\ estimates' = in.estimates
             /\ IF out.raised
                THEN /\ pc' = "crashed"
                     /\ exit_code' = Some(1)
                     /\ UNCHANGED <<results, all_passed>>
                ELSE /\ results' = Append(results,
                                          [out.verdict EXCEPT !.checks = earlier \o @])
                     /\ all_passed' = IF out.sets_false THEN FALSE ELSE all_passed
                     /\ UNCHANGED <<pc, exit_code>>
    /\ UNCHANGED <<baseline_file, nbench, threshold, strict_p99>>

check_regression_iter(Inputs) ==
    /\ pc = "loop"
    /\ Len(results) < nbench
    /\ \E in \in Inputs :
         LET out == loop_body(in.config, in.disk, in.estimates, threshold, strict_p99)
         IN  /\ config' = in.config
             /\ disk' = in.disk
             /\ estimates' = in.estimates
             /\ IF out.raised
                THEN /\ pc' = "crashed"
                     /\ exit_code' = Some(1)
                     /\ UNCHANGED <<results, all_passed>>
                ELSE /\ results' = Append(results, out.verdict)
                     /\ all_passed' = IF out.sets_false THEN FALSE ELSE all_passed
                     /\ UNCHANGED <<pc, exit_code>>
    /\ UNCHANGED <<baseline_file, nbench, threshold, strict_p99>>

(***************************************************************************)
(* check_regression returns (all_passed, results); main, lines 519-524,    *)
(* exits 0 when passed, 1 otherwise.                                       *)
(***************************************************************************)
main_exit ==
    /\ pc = "loop"
    /\ Len(results) = nbench
    /\ pc' = "exit"
    /\ exit_code' = IF all_passed THEN Some(0) ELSE Some(1)
    /\ UNCHANGED <<baseline_file, nbench, threshold, strict_p99, config, disk,
                   estimates, results, all_passed>>

\* Runs over up to MaxBenchmarks declared benchmarks.
Next ==
    \/ main_start({None}, 0..MaxBenchmarks)
    \/ check_regression_iter(LoopInputs)
    \/ main_exit

Spec == Init /\ [][Next]_vars

\* Runs over one declared benchmark, with the detailed input space.
NextEval ==
    \/ main_start({None, Some(Rat(6, 5))}, {1})
    \/ check_regression_iter(EvalInputs)
    \/ main_exit

SpecEval == Init /\ [][NextEval]_vars

(***************************************************************************)
(* Properties.                                                             *)
(***************************************************************************)
\* The last iteration recorded a verdict: config, disk and estimates are the
\* inputs of the benchmark whose verdict is the last of results.
Recorded == pc \in {"loop", "exit"} /\ results # <<>>
LastVerdict == results[Len(results)]
\* The last iteration read and parsed an estimates.json.
SummaryRead ==
    disk.dir /\ (disk.new = "ok" \/ (disk.new = "absent" /\ disk.base = "ok"))
Statuses(rs) == { rs[k].status : k \in 1..Len(rs) }

\* C1: at every point of the run (after every prefix of the benchmark loop
\* and at the return of check_regression) the aggregate flag is false iff at
\* least one recorded verdict has status FAIL or REGRESSION; SKIP and PASS
\* verdicts alone leave it true.
C1_AggregateIffFailOrRegression ==
    /\ (all_passed = FALSE) <=> (Statuses(results) \cap {"FAIL", "REGRESSION"} # {})
    /\ (Statuses(results) \subseteq {"SKIP", "PASS"}) => all_passed

C1_Witness ==
    /\ pc = "exit"
    /\ Len(results) = 2
    /\ results[1].status = "SKIP"
    /\ results[2].status = "REGRESSION"
    /\ all_passed = FALSE
    /\ exit_code = Some(1)

\* C2: results exist, the median is extractable, the baseline tail
\* expectation is > 0, strict-tail mode is on and no tail is extracted: the
\* verdict is FAIL with the tail-extraction reason, holds no checks, and the
\* aggregate is false.
C2_StrictTailFails ==
    (/\ Recorded
     /\ SummaryRead
     /\ extract_median_ns(estimates) # None
     /\ baseline_p99_of(config) > 0
     /\ strict_p99
     /\ extract_p99_ns(estimates).value = None)
    => /\ LastVerdict.status = "FAIL"
       /\ LastVerdict.reason = <<"Could not extract P99 from estimates (baseline requires P99)">>
       /\ LastVerdict.checks = <<>>
       /\ ~LastVerdict.has_metrics
       /\ all_passed = FALSE

C2_Witness ==
    /\ Recorded
    /\ SummaryRead
    /\ estimates.median.pe = Some(11000)
    /\ estimates.mean.kind = "absent"
    /\ config.p99 = Some(10)
    /\ strict_p99
    /\ LastVerdict.status = "FAIL"
    /\ all_passed = FALSE

\* The case of the lenient flag: strict-tail mode off, median extracted, no
\* tail extracted, baseline tail expectation > 0.
LenientMissingTail ==
    /\ Recorded
    /\ SummaryRead
    /\ ~strict_p99
    /\ extract_median_ns(estimates) # None
    /\ extract_p99_ns(estimates).value = None
    /\ baseline_p99_of(config) > 0

CheckNames(v) == { v.checks[k].name : k \in 1..Len(v.checks) }

\* C3: under the lenient flag a benchmark whose tail cannot be extracted
\* while its baseline expects one gets status SKIP and leaves the aggregate
\* true.
C3_LenientGivesSkip ==
    LenientMissingTail => (LastVerdict.status = "SKIP" /\ all_passed)

\* What the loop body does in that case: the benchmark is neither failed by
\* the strict-tail rule nor skipped; it goes on to unit validation and to
\* check evaluation with no tail value and no tail check recorded, and its
\* status is FAIL on an unsupported unit, else PASS, REGRESSION or FAIL as the
\* median checks decide.
C3_LenientProceeds ==
    LenientMissingTail =>
       /\ LastVerdict.status # "SKIP"
       /\ LastVerdict.reason # <<"Could not extract P99 from estimates (baseline requires P99)">>
       /\ IF unit_of(config) \notin SUPPORTED_UNITS
          THEN /\ LastVerdict.status = "FAIL"
               /\ LastVerdict.reason = <<"Unsupported unit in baseline: ", unit_of(config)>>
               /\ all_passed = FALSE
          ELSE /\ LastVerdict.has_metrics
               /\ LastVerdict.current_p99 = None
               /\ CheckNames(LastVerdict) \subseteq {"P50 Hard Limit", "P50 Regression"}
               /\ LastVerdict.status \in {"PASS", "REGRESSION", "FAIL"}
               /\ (LastVerdict.status = "PASS") <=> all_passed

LenientRegressionReached ==
    /\ LenientMissingTail
    /\ LastVerdict.status = "REGRESSION"
    /\ LastVerdict.has_metrics
    /\ all_passed = FALSE

\* The summary has neither a median point estimate nor a (non-null) slope
\* point estimate.
NoMedianNoSlope(est) ==
    /\ est.median.kind # "dict" \/ est.median.pe = None
    /\ est.slope.kind # "dict" \/ est.slope.pe = None

\* C4: an iteration that read a run summary with neither a median nor a
\* slope point estimate records SKIP ("could not extract median"), whatever
\* the tail data, the baseline tail expectation, strict-tail mode and the
\* baseline unit are, and leaves the aggregate as it was.
C4_NoMedianSkips ==
    [][ (/\ pc = "loop"
         /\ Len(results') = Len(results) + 1
         /\ SummaryRead'
         /\ NoMedianNoSlope(estimates'))
        => /\ results'[Len(results')].status = "SKIP"
           /\ results'[Len(results')].reason = <<"Could not extract median from estimates">>
           /\ all_passed' = all_passed ]_vars

C4_Witness ==
    /\ Recorded
    /\ SummaryRead
    /\ NoMedianNoSlope(estimates)
    /\ estimates.slope.kind = "null"
    /\ estimates.mean.pe = Some(10000)
    /\ estimates.std_dev.pe = Some(2000)
    /\ config.p99 # None
    /\ config.unit = Some("bogus")
    /\ strict_p99
    /\ LastVerdict.status = "SKIP"
    /\ all_passed

\* C5: whenever a benchmark reaches check evaluation with a
\* declared hard_limit and a current median strictly above it, the checks
\* hold a failing "P50 Hard Limit" and no median-regression check, for every
\* value of the baseline p50 (absent and 0 included).
C5_HardLimitForEveryP50 ==
    (/\ Recorded
     /\ LastVerdict.has_metrics
     /\ config.hard_limit # None
     /\ RatGT(LastVerdict.current_p50[1], Rat(config.hard_limit[1], 1)))
    => /\ \E k \in 1..Len(LastVerdict.checks) :
             LastVerdict.checks[k].name = "P50 Hard Limit" /\ ~LastVerdict.checks[k].passed
       /\ "P50 Regression" \notin CheckNames(LastVerdict)

RatEq(a, b) == a[1] * b[2] = b[1] * a[2]
Passing(v, name) == \E k \in 1..Len(v.checks) : v.checks[k].name = name /\ v.checks[k].passed
Failing(v, name) == \E k \in 1..Len(v.checks) : v.checks[k].name = name /\ ~v.checks[k].passed
\* The ratios, recomputed from the metrics the verdict records.
MedianRatio(v) == RatDiv(v.current_p50[1], Rat(v.baseline_p50, 1))
TailRatio(v) == RatDiv(v.current_p99[1], Rat(v.baseline_p99, 1))
TailMedianRatio(v) == RatDiv(v.current_p99[1], v.current_p50[1])

\* C6: the three ratio checks compare with a strict greater-than: a median
\* ratio equal to the median threshold, a tail ratio equal to 1.50 and a
\* tail/median ratio equal to 5.0 each give a passing check, and each check
\* fails only when its ratio is strictly above its threshold.
C6_StrictComparisons ==
    (Recorded /\ LastVerdict.has_metrics) =>
       LET v == LastVerdict
       IN  /\ (v.baseline_p50 > 0 /\ ~ExceedsLimit(v.current_p50[1], hard_limit_of(config)))
              => /\ RatEq(MedianRatio(v), threshold) => Passing(v, "P50 Regression")
                 /\ Failing(v, "P50 Regression") <=> RatGT(MedianRatio(v), threshold)
           /\ (v.current_p99 # None /\ v.baseline_p99 > 0)
              => /\ RatEq(TailRatio(v), Rat(3, 2)) => Passing(v, "P99 Regression")
                 /\ Failing(v, "P99 Regression") <=> RatGT(TailRatio(v), Rat(3, 2))
           /\ (v.current_p99 # None /\ RatPos(v.current_p50[1]))
              => /\ RatEq(TailMedianRatio(v), Rat(5, 1)) => Passing(v, "P99/P50 Ratio")
                 /\ Failing(v, "P99/P50 Ratio") <=> RatGT(TailMedianRatio(v), Rat(5, 1))

C6_Witness ==
    /\ Recorded
    /\ LastVerdict.has_metrics
    /\ LastVerdict.unit = "us"
    /\ LastVerdict.current_p99 # None
    /\ LastVerdict.baseline_p99 > 0
    /\ RatEq(TailRatio(LastVerdict), Rat(3, 2))
    /\ RatEq(TailMedianRatio(LastVerdict), Rat(5, 1))
    /\ Passing(LastVerdict, "P99 Regression")
    /\ Passing(LastVerdict, "P99/P50 Ratio")

\* A second reachable edge case of C6: the median ratio equal to the
\* threshold, with a passing median check.
C6_MedianEdgeReached ==
    /\ Recorded
    /\ LastVerdict.has_metrics
    /\ LastVerdict.baseline_p50 > 0
    /\ RatEq(MedianRatio(LastVerdict), threshold)
    /\ Passing(LastVerdict, "P50 Regression")

\* C7: for a benchmark that reaches check evaluation, status is PASS iff no
\* recorded check failed; otherwise REGRESSION iff a failed check has
\* "Regression" in its name, and FAIL iff checks failed and none of the
\* failed ones has; the reason lists the failing checks' reasons in check
\* order, or is "All checks passed".
C7_StatusFromChecks ==
    (Recorded /\ LastVerdict.has_metrics) =>
       LET v == LastVerdict
           F == { k \in 1..Len(v.checks) : ~v.checks[k].passed }
           reg == { k \in F : v.checks[k].name \in {"P50 Regression", "P99 Regression"} }
       IN  /\ (v.status = "PASS") <=> (F = {})
           /\ (v.status = "REGRESSION") <=> (reg # {})
           /\ (v.status = "FAIL") <=> (F # {} /\ reg = {})
           /\ (F = {}) => v.reason = <<"All checks passed">>
           /\ (F # {}) =>
                /\ Len(v.reason) = Cardinality(F)
                /\ \A k \in F :
                     v.reason[Cardinality({j \in F : j <= k})] = v.checks[k].reason
           /\ (Failing(v, "P50 Hard Limit") /\ Failing(v, "P99 Regression"))
                => v.status = "REGRESSION"

C7_Witness ==
    /\ Recorded
    /\ LastVerdict.has_metrics
    /\ Failing(LastVerdict, "P50 Hard Limit")
    /\ Failing(LastVerdict, "P99 Regression")
    /\ Passing(LastVerdict, "P99/P50 Ratio")
    /\ LastVerdict.status = "REGRESSION"
    /\ LastVerdict.reason = <<"Exceeds hard limit", "P99 over threshold">>

\* An iteration of the loop has run (it recorded a verdict or raised).
IterationRan == results # <<>> \/ (pc = "crashed" /\ nbench > 0)
\* The run summary of the current benchmark is missing (no directory, or no
\* estimates.json in it) or malformed (the estimates.json read is not JSON).
SummaryMissing ==
    ~disk.dir \/ (disk.new = "absent" /\ disk.base = "absent")
SummaryMalformed ==
    disk.dir /\ (disk.new = "malformed" \/ (disk.new = "absent" /\ disk.base = "malformed"))

\* C8: a run summary that is missing or malformed for a
\* declared benchmark yields a SKIP verdict for that benchmark and the loop
\* goes on; nothing but a missing baseline configuration aborts the run.
C8_BadSummarySkips ==
    (IterationRan /\ (SummaryMissing \/ SummaryMalformed))
    => /\ pc \in {"loop", "exit"}
       /\ results # <<>>
       /\ LastVerdict.status = "SKIP"

\* C9: an entry that carries its tail expectation under the
\* other (legacy) name only is still subject to the strict-tail rule: with
\* the median extracted, no tail extracted and strict-tail mode on, its
\* verdict is FAIL.
C9_OtherNameStillStrict ==
    (/\ Recorded
     /\ SummaryRead
     /\ config.p99 = None
     /\ config.other_tail # None
     /\ config.other_tail[1] > 0
     /\ strict_p99
     /\ extract_median_ns(estimates) # None
     /\ extract_p99_ns(estimates).value = None)
    => LastVerdict.status = "FAIL"

\* Both point estimates present, mean > 0 and std_dev >= 0.
PrimaryAvailable(est) ==
    /\ est.mean.kind = "dict" /\ est.mean.pe # None
    /\ est.std_dev.kind = "dict" /\ est.std_dev.pe # None
    /\ est.mean.pe[1] > 0
    /\ est.std_dev.pe[1] >= 0
\* The upper bound of the mean's confidence interval, when usable.
UpperAvailable(est) ==
    est.mean.kind = "dict" /\ est.mean.upper # None /\ est.mean.upper[1] # 0

\* C10: extract_p99_ns returns (mean + 5 * std_dev, true) when
\* the primary strategy is available; otherwise the upper confidence bound,
\* flagged estimated, when there is one; otherwise (absent, false).  A
\* std_dev without a point estimate, or no std_dev, never gives a primary
\* estimate.
C10_FallbackChain ==
    (Recorded /\ SummaryRead) =>
       LET r == extract_p99_ns(estimates)
       IN  IF PrimaryAvailable(estimates)
           THEN r = [value |-> Some(Rat(estimates.mean.pe[1] + 5 * estimates.std_dev.pe[1], 1)),
                     estimated |-> TRUE]
           ELSE IF UpperAvailable(estimates)
           THEN r = [value |-> Some(Rat(estimates.mean.upper[1], 1)), estimated |-> TRUE]
           ELSE r = [value |-> None, estimated |-> FALSE]

\* The benchmark got past the median test and the strict-tail rule with a
\* baseline unit outside {ns, us, ms, s}.
UnsupportedUnitCase ==
    /\ Recorded
    /\ SummaryRead
    /\ extract_median_ns(estimates) # None
    /\ ~(extract_p99_ns(estimates).value = None /\ baseline_p99_of(config) > 0 /\ strict_p99)
    /\ unit_of(config) \notin {"ns", "us", "ms", "s"}

\* C11: a benchmark whose median was extracted, which the strict-tail rule
\* did not fail and whose baseline unit is unsupported gets FAIL with the
\* unit named in the reason, no metrics and no checks; the aggregate is
\* false and the loop goes on.  No iteration ends in an exception raised by
\* convert_ns_to_unit: an iteration raises only on a malformed summary.
C11_UnsupportedUnitFails ==
    /\ UnsupportedUnitCase =>
          /\ LastVerdict.status = "FAIL"
          /\ LastVerdict.reason = <<"Unsupported unit in baseline: ", unit_of(config)>>
          /\ ~LastVerdict.has_metrics
          /\ LastVerdict.current_p50 = None
          /\ LastVerdict.current_p99 = None
          /\ LastVerdict.checks = <<>>
          /\ all_passed = FALSE
          /\ pc \in {"loop", "exit"}
    /\ (pc = "crashed" /\ baseline_file = "ok") => SummaryMalformed

\* An unsupported-unit FAIL for the first benchmark, followed by the verdict
\* of the second.
C11_Witness ==
    /\ pc = "exit"
    /\ Len(results) = 2
    /\ results[1].status = "FAIL"
    /\ results[1].reason = <<"Unsupported unit in baseline: ", "bogus">>
    /\ results[2].status = "PASS"
    /\ all_passed = FALSE
    /\ exit_code = Some(1)

\* C12: the exit code is 0 iff every declared benchmark has a verdict PASS or
\* SKIP, 1 iff at least one verdict is REGRESSION or FAIL, and 2 iff the
\* baseline configuration could not be loaded (it is missing or does not
\* parse); with exit code 2 no benchmark was evaluated.
C12_ExitCodes ==
    (exit_code # None) =>
       /\ (exit_code = Some(0)) <=>
             (/\ baseline_file = "ok"
              /\ Len(results) = nbench
              /\ Statuses(results) \subseteq {"PASS", "SKIP"})
       /\ (exit_code = Some(1)) <=> (Statuses(results) \cap {"REGRESSION", "FAIL"} # {})
       /\ (exit_code = Some(2)) <=> (baseline_file \in {"missing", "malformed"})
       /\ (exit_code = Some(2)) => results = <<>>

\* The extracted tail over the baseline tail expectation, both in the
\* baseline unit, computed from the inputs of the iteration.
InputTailRatio ==
    LET tail_ns == extract_p99_ns(estimates).value[1]
    IN  Rat(tail_ns[1], tail_ns[2] * UnitFactor(unit_of(config)) * baseline_p99_of(config))
ChecksNamed(v, name) == { k \in 1..Len(v.checks) : v.checks[k].name = name }

\* C13: a benchmark that reaches check evaluation with an extracted tail and
\* a baseline tail expectation T > 0 records one tail-regression check; the
\* check fails iff tail / T (in the baseline unit) is strictly above 1.50,
\* and when it fails the status is REGRESSION.  In the scenario (us, p50 100,
\* tail expectation 400, hard_limit 1000, mean 100000 ns, median 99000 ns)
\* std_dev 90000 gives tail 550 us and a passing tail check, std_dev 120000
\* gives tail 700 us, a failing tail check and REGRESSION.
C13_TailRegression ==
    (Recorded /\ LastVerdict.has_metrics) =>
       LET v == LastVerdict
       IN  /\ (extract_p99_ns(estimates).value # None /\ baseline_p99_of(config) > 0)
              => /\ Cardinality(ChecksNamed(v, "P99 Regression")) = 1
                 /\ Failing(v, "P99 Regression") <=> RatGT(InputTailRatio, Rat(3, 2))
                 /\ Failing(v, "P99 Regression") => v.status = "REGRESSION"
           /\ (config = ScenarioConfig /\ estimates = ScenarioEstimates(90000))
              => /\ v.current_p99 # None
                 /\ RatEq(v.current_p99[1], Rat(550, 1))
                 /\ Passing(v, "P99 Regression")
           /\ (config = ScenarioConfig /\ estimates = ScenarioEstimates(120000))
              => /\ v.current_p99 # None
                 /\ RatEq(v.current_p99[1], Rat(700, 1))
                 /\ Failing(v, "P99 Regression")
                 /\ v.status = "REGRESSION"

C13_Witness ==
    /\ Recorded
    /\ config = ScenarioConfig
    /\ estimates = ScenarioEstimates(120000)
    /\ LastVerdict.has_metrics
    /\ Failing(LastVerdict, "P99 Regression")
    /\ LastVerdict.status = "REGRESSION"
    /\ all_passed = FALSE

\* The other half of the scenario: std_dev 90000, tail 550 us, the tail
\* check passes.
C13_ScenarioPassReached ==
    /\ Recorded
    /\ config = ScenarioConfig
    /\ estimates = ScenarioEstimates(90000)
    /\ Passing(LastVerdict, "P99 Regression")

\* The extracted tail over the extracted median, computed from the inputs of
\* the iteration (the unit factor cancels).
InputTailMedianRatio ==
    RatDiv(extract_p99_ns(estimates).value[1], extract_median_ns(estimates)[1])

\* C14: for a benchmark that reaches check evaluation, a tail/median ratio
\* check is recorded iff a tail was extracted and the current median is > 0;
\* it fails iff tail/median is strictly above 5.0, whatever the baseline
\* values are; when it is the only failing check the status is FAIL.
C14_TailMedianSanity ==
    (Recorded /\ LastVerdict.has_metrics) =>
       LET v == LastVerdict
           F == { k \in 1..Len(v.checks) : ~v.checks[k].passed }
           applicable == /\ extract_p99_ns(estimates).value # None
                         /\ RatPos(extract_median_ns(estimates)[1])
       IN  /\ Cardinality(ChecksNamed(v, "P99/P50 Ratio")) = (IF applicable THEN 1 ELSE 0)
           /\ applicable =>
                (Failing(v, "P99/P50 Ratio") <=> RatGT(InputTailMedianRatio, Rat(5, 1)))
           /\ (F # {} /\ \A k \in F : v.checks[k].name = "P99/P50 Ratio")
                => v.status = "FAIL"

C14_Witness ==
    /\ Recorded
    /\ LastVerdict.has_metrics
    /\ Passing(LastVerdict, "P50 Regression")
    /\ Passing(LastVerdict, "P99 Regression")
    /\ Failing(LastVerdict, "P99/P50 Ratio")
    /\ LastVerdict.status = "FAIL"
    /\ all_passed = FALSE

\* The ratio check is left out when the current median is 0 although a tail
\* was extracted.
C14_ZeroMedianReached ==
    /\ Recorded
    /\ LastVerdict.has_metrics
    /\ LastVerdict.current_p99 # None
    /\ ~RatPos(LastVerdict.current_p50[1])
    /\ "P99/P50 Ratio" \notin CheckNames(LastVerdict)

\* The position of a check in the order of evaluation.
Rank(name) ==
    CASE name = "P50 Hard Limit" -> 1
      [] name = "P50 Regression" -> 1
      [] name = "P99 Regression" -> 2
      [] name = "P99/P50 Ratio"  -> 3
      [] OTHER -> 0

\* The checks of a verdict follow the order median, tail regression,
\* tail/median ratio with at most one entry per position, and the two tail
\* checks are recorded exactly when they apply, whatever the earlier checks
\* gave.
OrderedAndLaterRecorded(v) ==
    /\ \A k \in 1..Len(v.checks) : Rank(v.checks[k].name) # 0
    /\ \A j, k \in 1..Len(v.checks) :
         j < k => Rank(v.checks[j].name) < Rank(v.checks[k].name)
    /\ ("P99 Regression" \in CheckNames(v))
         <=> (extract_p99_ns(estimates).value # None /\ baseline_p99_of(config) > 0)
    /\ ("P99/P50 Ratio" \in CheckNames(v))
         <=> (/\ extract_p99_ns(estimates).value # None
              /\ RatPos(extract_median_ns(estimates)[1]))
    /\ (baseline_p50_of(config) > 0 /\ ~ExceedsLimit(v.current_p50[1], hard_limit_of(config)))
         => "P50 Regression" \in CheckNames(v)

\* C15: the checks of one benchmark are evaluated in the order median (hard
\* limit / median regression), tail regression, tail/median ratio and are
\* not short-circuited: the checks list is a subsequence of that order with
\* at most one entry per position, a later applicable check is recorded
\* whatever the earlier ones gave, and every failing applicable check
\* appears in the list (a median above the declared hard limit included).
C15_FixedOrderAllRecorded ==
    (Recorded /\ LastVerdict.has_metrics) =>
       /\ OrderedAndLaterRecorded(LastVerdict)
       /\ ExceedsLimit(LastVerdict.current_p50[1], hard_limit_of(config))
            => Failing(LastVerdict, "P50 Hard Limit")

\* What holds of the order of the checks: the order, the later checks
\* recorded after an earlier failure, and the hard limit check when the
\* baseline has a median > 0.
C15_OrderNoShortCircuit ==
    (Recorded /\ LastVerdict.has_metrics) =>
       /\ OrderedAndLaterRecorded(LastVerdict)
       /\ (/\ baseline_p50_of(config) > 0
           /\ ExceedsLimit(LastVerdict.current_p50[1], hard_limit_of(config)))
            => Failing(LastVerdict, "P50 Hard Limit")

\* A failing median regression check followed by both tail checks, the
\* tail regression check failing too.
C15_LaterChecksAfterFailureReached ==
    /\ Recorded
    /\ LastVerdict.has_metrics
    /\ Len(LastVerdict.checks) = 3
    /\ LastVerdict.checks[1].name = "P50 Regression"
    /\ ~LastVerdict.checks[1].passed
    /\ LastVerdict.checks[2].name = "P99 Regression"
    /\ ~LastVerdict.checks[2].passed
    /\ LastVerdict.checks[3].name = "P99/P50 Ratio"

C16_PassAfterFailureReached ==
    /\ pc = "exit"
    /\ Len(results) = 2
    /\ results[1].status \in {"FAIL", "REGRESSION"}
    /\ results[1].checks # <<>>
    /\ results[2].status = "PASS"
    /\ results[2].checks # <<>>

\* C17: extract_p99_ns never returns a tail equal to 0 (the primary estimate
\* is > 0 and an upper bound of 0 counts as absent), so in every verdict
\* that reaches check evaluation the converted tail current_p99 is absent
\* iff no tail was extracted, and p99_estimated is true iff a tail is
\* present.
C17_TailNeverZero ==
    LET p99 == extract_p99_ns(estimates)
    IN  /\ p99.value # None => p99.value[1][1] # 0
        /\ p99.estimated <=> (p99.value # None)
        /\ (Recorded /\ LastVerdict.has_metrics) =>
              /\ (LastVerdict.current_p99 = None) <=> (p99.value = None)
              /\ LastVerdict.p99_estimated <=> (LastVerdict.current_p99 # None)
              /\ LastVerdict.current_p99 # None =>
                    RatEq(LastVerdict.current_p99[1],
                          Rat(p99.value[1][1], p99.value[1][2] * UnitFactor(unit_of(config))))

\* An upper bound of 0 and no primary estimate: no tail, no estimated flag.
C17_Witness ==
    /\ Recorded
    /\ LastVerdict.has_metrics
    /\ estimates.mean.kind = "dict"
    /\ estimates.mean.upper = Some(0)
    /\ LastVerdict.current_p99 = None
    /\ ~LastVerdict.p99_estimated
    /\ LastVerdict.status = "PASS"

\* A tail taken from a non-zero upper bound and recorded as estimated.
C17_UpperBoundTailReached ==
    /\ Recorded
    /\ LastVerdict.has_metrics
    /\ estimates.mean.pe = None
    /\ estimates.mean.upper = Some(16000)
    /\ LastVerdict.current_p99 # None
    /\ LastVerdict.p99_estimated

====
